---- MODULE Spec2Model ----
(***************************************************************************)
(* Model of the CoastWatch mile scraper worker (src/src/index.ts, the      *)
(* module that starts at line 127): the cron handler scheduled(), which    *)
(* scrapes the published table and the mile detail pages, validates the    *)
(* assembled feature collection and stores it in the KV namespace, and the *)
(* read handler fetch(), which serves the stored value.                    *)
(*                                                                         *)
(* Text is modelled at the granularity the code inspects it:               *)
(*   - the identifier cell is a sequence of characters (parseInt);         *)
(*   - a name / an alt attribute is a sequence of words (substring tests); *)
(*   - the pagination text is a sequence of tokens, each a word or a run   *)
(*     of digit characters (the regular expression and parseInt).          *)
(* An optional value (a property that may be undefined) is <<>> when it is *)
(* absent and <<v>> when it is present.  The point geometry and the url    *)
(* string are not modelled: no property below reads them.                  *)
(***************************************************************************)
EXTENDS Integers, Sequences, FiniteSets, TLC

VARIABLES
    store,          \* KV namespace "miles", key "miles": <<>> or <<collection>>
    pc,             \* position of the scheduled() run
    doc,            \* response of the spreadsheet fetch for this run
    web,            \* the detail pages oregonshores.org serves during this run
    row,            \* index of the table row the for-loop is at
    features,       \* miles.features
    imagesFetched,  \* let imagesFetched
    error,          \* "none", or the exception that ended the run
    runs,           \* number of scheduled() runs started (also the clock)
    request,        \* method of the request the read handler is serving, or ""
    response,       \* last response of the read handler
    fetched,        \* history: rows whose detail page fetch was issued this run
    nonOk,          \* history: non-success responses consumed this run
    netErrors,      \* history: fetch promises rejected this run
    putsThisRun,    \* history: env.miles.put calls completed this run
    storeBefore,    \* history: value of store when this run started
    everPut         \* history: some run completed a put

vars == <<store, pc, doc, web, row, features, imagesFetched, error, runs,
          request, response, fetched, nonOk, netErrors, putsThisRun,
          storeBefore, everPut>>

(***************************************************************************)
(* Program constants and bounds                                            *)
(***************************************************************************)
MaxDetailFetches == 500
MinMiles == 10

MaxRuns == 2
ExtraRows == 2

Min(a, b) == IF a < b THEN a ELSE b

(***************************************************************************)
(* Text helpers                                                            *)
(***************************************************************************)
Digits == {"0", "1", "2", "3", "4", "5", "6", "7", "8", "9"}
DigitChars == <<"0", "1", "2", "3", "4", "5", "6", "7", "8", "9">>
DigitVal(c) == (CHOOSE i \in 1..10 : DigitChars[i] = c) - 1

RECURSIVE ToDigits(_)
ToDigits(n) == IF n < 10 THEN <<DigitChars[n + 1]>>
               ELSE ToDigits(n \div 10) \o <<DigitChars[(n % 10) + 1]>>

RECURSIVE TrimLeft(_)
TrimLeft(s) == IF s # <<>> /\ Head(s) = " " THEN TrimLeft(Tail(s)) ELSE s

RECURSIVE LeadingDigits(_)
LeadingDigits(s) == IF s = <<>> \/ Head(s) \notin Digits THEN <<>>
                    ELSE <<Head(s)>> \o LeadingDigits(Tail(s))

RECURSIVE DecimalValue(_)
DecimalValue(d) == IF d = <<>> THEN 0
                   ELSE 10 * DecimalValue(SubSeq(d, 1, Len(d) - 1)) + DigitVal(d[Len(d)])

NaN == [nan |-> TRUE, val |-> 0]

\* JavaScript parseInt(string), radix 10: leading blanks, an optional sign,
\* then the longest run of digits; NaN when there is no digit.
parseInt(s) ==
    LET t == TrimLeft(s)
        signed == t # <<>> /\ Head(t) \in {"-", "+"}
        d == LeadingDigits(IF signed THEN Tail(t) ELSE t)
    IN IF d = <<>> THEN NaN
       ELSE [nan |-> FALSE,
             val |-> IF signed /\ Head(t) = "-" THEN 0 - DecimalValue(d) ELSE DecimalValue(d)]

\* needle occurs in hay as a contiguous run
Contains(hay, needle) ==
    \E i \in 1..(Len(hay) - Len(needle) + 1) : SubSeq(hay, i, i + Len(needle) - 1) = needle

Truthy(opt) == opt # <<>> /\ opt[1] # ""
TruthyNumber(opt) == opt # <<>> /\ opt[1] # 0

(***************************************************************************)
(* TableRowParser                                                          *)
(***************************************************************************)
Sentinel == <<"never", "captured", "on", "OSCC", "website">>

SkipRowNoSentinel(r) == parseInt(r.idCell).nan

\* the two `continue` statements of the loop
SkipRow(r) == parseInt(r.idCell).nan \/ Contains(r.name, Sentinel)

NewFeatureByName(r) ==
    [id |-> Len(r.name), name |-> r.name, mileNumber |-> Len(r.name),
     imageUrl |-> <<>>, numReports |-> <<>>]

\* const feature: MileFeature = {...}
NewFeature(r) ==
    [id |-> parseInt(r.idCell).val, name |-> r.name,
     mileNumber |-> parseInt(r.idCell).val,
     imageUrl |-> <<>>, numReports |-> <<>>]

WithinCapInclusive(n) == n <= MaxDetailFetches

\* imagesFetched++ < 500, on the value before the increment
WithinCap(n) == n < MaxDetailFetches

(***************************************************************************)
(* DetailEnricher                                                          *)
(***************************************************************************)
\* $$(selector).attr("src"): the attribute of the first matched element
AttrSrc(elems) == IF elems = <<>> THEN <<>> ELSE elems[1].src

\* :not([alt*=decorative])
NotDecorative(img) == img.alt = <<>> \/ ~Contains(img.alt[1], <<"decorative">>)

ImageUrlAnyReportImage(page) ==
    IF Truthy(AttrSrc(page.mileImages)) THEN AttrSrc(page.mileImages)
    ELSE IF Truthy(AttrSrc(page.reportImages)) THEN AttrSrc(page.reportImages)
    ELSE <<>>

\* the value feature.properties.imageUrl is left with
ImageUrl(page) ==
    LET imageUrl == AttrSrc(page.mileImages)
        reportImageUrl == AttrSrc(SelectSeq(page.reportImages, NotDecorative))
    IN IF Truthy(imageUrl) THEN imageUrl
       ELSE IF Truthy(reportImageUrl) THEN reportImageUrl
       ELSE <<>>

W(s) == [w |-> s, d |-> <<>>]
N(n) == [w |-> "", d |-> ToDigits(n)]

MatchesAt(text, i) ==
    /\ i + 4 <= Len(text)
    /\ text[i].w = "Showing"
    /\ text[i + 1].d # <<>>
    /\ text[i + 2].w = "of"
    /\ text[i + 3].d # <<>>
    /\ text[i + 4].w = "reports"

\* /Showing \d+ of (\d+) reports/.exec(reports): <<>> for null, else <<data[1]>>
RegexExec(text) ==
    IF \E i \in 1..Len(text) : MatchesAt(text, i)
    THEN LET i == CHOOSE j \in 1..Len(text) :
                     MatchesAt(text, j) /\ \A k \in 1..(j - 1) : ~MatchesAt(text, k)
         IN <<text[i + 3].d>>
    ELSE <<>>

\* the value feature.properties.numReports is left with
NumReports(page) ==
    LET data == RegexExec(page.resultsText)
    IN IF data = <<>> THEN <<>>
       ELSE IF parseInt(data[1]).nan THEN <<>>
       ELSE <<parseInt(data[1]).val>>

Enrich(f, page) ==
    [f EXCEPT !.imageUrl = ImageUrl(page), !.numReports = NumReports(page)]

\* the page the site serves for a mile during this run
DetailPage(w, id) == w[(id % Len(w)) + 1]

(***************************************************************************)
(* FeatureAssembler / DataQualityValidator                                 *)
(***************************************************************************)
Collection(feats, t) == [type |-> "FeatureCollection", updatedAt |-> t, features |-> feats]

\* the if / else-if chain after the loop; "none" when nothing is thrown
ValidationError(feats) ==
    IF ~ \E k \in 1..Len(feats) : ~Truthy(feats[k].imageUrl) THEN "noImages"
    ELSE IF ~ \E k \in 1..Len(feats) : ~TruthyNumber(feats[k].numReports) THEN "noReports"
    ELSE IF Len(feats) < MinMiles THEN "tooFew"
    ELSE "none"

ValidationErrors == {"noImages", "noReports", "tooFew"}

(***************************************************************************)
(* Read handler                                                            *)
(***************************************************************************)
NoResponse == [method |-> "", status |-> 0, text |-> "", json |-> <<>>]

fetchAnyMethod(method, kv) ==
    IF kv = <<>>
    THEN [method |-> method, status |-> 404,
          text |-> "Not found. Cron job did not create dataset?", json |-> <<>>]
    ELSE [method |-> method, status |-> 200, text |-> "", json |-> kv]

\* async fetch(request, env, ctx); kv is what env.miles.get("miles") returns
fetch(method, kv) ==
    IF method # "GET"
    THEN [method |-> method, status |-> 403, text |-> "Only GET supported", json |-> <<>>]
    ELSE IF kv = <<>>
    THEN [method |-> method, status |-> 404,
          text |-> "Not found. Cron job did not create dataset?", json |-> <<>>]
    ELSE [method |-> method, status |-> 200, text |-> "", json |-> kv]

Methods == {"GET", "POST"}

(***************************************************************************)
(* Inputs: tables and sites                                                *)
(***************************************************************************)
Names == <<"Neskowin", "Cape Kiwanda", "Sand Lake", "Netarts Spit">>

HeaderRow == [idCell |-> <<"M", "i", "l", "e">>, name |-> <<"Name">>]
BlankRow == [idCell |-> <<>>, name |-> <<>>]
DataRow(n) == [idCell |-> ToDigits(n), name |-> <<Names[(n % 4) + 1]>>]
CellRow(cell) == [idCell |-> cell, name |-> <<"Never", "captured", "beach">>]
SentinelRow(n) == [idCell |-> ToDigits(n), name |-> <<"Mile">> \o Sentinel \o <<"yet">>]

DataRows(a, b) == [i \in 1..(b - a + 1) |-> DataRow(a + i - 1)]

\* two header-like rows and ten data rows
DocTwelve == [ok |-> TRUE, rows |-> <<HeaderRow, BlankRow>> \o DataRows(1, 10)]
\* repeated, padded, suffixed, negative and zero identifiers
DocDuplicates ==
    [ok |-> TRUE,
     rows |-> <<HeaderRow, DataRow(1), DataRow(2), DataRow(2),
                CellRow(<<" ", "7">>), CellRow(<<"1", "2", "a", "b">>),
                CellRow(<<"-", "3">>), CellRow(<<"0">>), SentinelRow(4)>>
              \o DataRows(5, 9)]
DocNine == [ok |-> TRUE, rows |-> <<HeaderRow>> \o DataRows(1, 9) \o <<SentinelRow(10)>>]
DocEleven == [ok |-> TRUE,
              rows |-> <<SentinelRow(20), HeaderRow>> \o DataRows(1, 6)
                       \o <<SentinelRow(21)>> \o DataRows(7, 11)]
\* an error page served with a non-success status: no table at all
DocError == [ok |-> FALSE, rows |-> <<>>]

Documents == {DocTwelve, DocDuplicates, DocNine, DocEleven, DocError}

LongRow(i) == IF i % 200 = 0 THEN SentinelRow(i) ELSE DataRow(i)
\* more records than the cap, with skipped rows before the cap is reached
DocLong == [ok |-> TRUE,
            rows |-> <<HeaderRow, BlankRow, CellRow(<<"7", "0", "1", "b">>)>>
                     \o [i \in 1..(MaxDetailFetches + ExtraRows + 2) |-> LongRow(i)]]
\* exactly as many records as the cap
DocAtCap == [ok |-> TRUE, rows |-> DataRows(1, MaxDetailFetches)]

LongDocuments == {DocLong, DocAtCap}

Img(src) == [src |-> src, alt |-> <<>>]
ImgAlt(src, alt) == [src |-> src, alt |-> <<alt>>]

PageFull ==
    [ok |-> TRUE,
     mileImages |-> <<Img(<<"mile.jpg">>)>>,
     reportImages |-> <<Img(<<"report1.jpg">>)>>,
     resultsText |-> <<W("Showing"), N(3), W("of"), N(47), W("reports")>>]
PageFallback ==
    [ok |-> TRUE,
     mileImages |-> <<>>,
     reportImages |-> <<ImgAlt(<<"placeholder.png">>, <<"decorative", "placeholder">>),
                        ImgAlt(<<"placeholder.png">>, <<"a", "decorative", "image">>),
                        ImgAlt(<<"report2.jpg">>, <<"beach", "photo">>),
                        Img(<<"report3.jpg">>)>>,
     resultsText |-> <<W("Reports"), W("Showing"), N(10), W("of"), N(12), W("reports"),
                       W("Showing"), N(1), W("of"), N(5), W("reports")>>]
PageDecorativeOnly ==
    [ok |-> TRUE,
     mileImages |-> <<>>,
     reportImages |-> <<ImgAlt(<<"placeholder.png">>, <<"decorative">>)>>,
     resultsText |-> <<W("Showing"), N(0), W("of"), N(0), W("reports")>>]
PageEmpty == [ok |-> TRUE, mileImages |-> <<>>, reportImages |-> <<>>, resultsText |-> <<>>]
PageNotFound == [ok |-> FALSE, mileImages |-> <<>>, reportImages |-> <<>>,
                 resultsText |-> <<W("Page"), W("not"), W("found")>>]
\* empty and missing src attributes, singular "report"
PageOdd ==
    [ok |-> TRUE,
     mileImages |-> <<Img(<<"">>), Img(<<"second.jpg">>)>>,
     reportImages |-> <<ImgAlt(<<"placeholder.png">>, <<"decorative">>),
                        Img(<<>>), Img(<<"report4.jpg">>)>>,
     resultsText |-> <<W("Showing"), N(1), W("of"), N(1), W("report")>>]
PagePrimaryTwice ==
    [ok |-> TRUE,
     mileImages |-> <<Img(<<"first.jpg">>), Img(<<"second.jpg">>)>>,
     reportImages |-> <<Img(<<"report5.jpg">>)>>,
     resultsText |-> <<W("Showing"), W("of"), N(4), W("reports")>>]

Pages == {PageFull, PageFallback, PageDecorativeOnly, PageEmpty, PageNotFound,
          PageOdd, PagePrimaryTwice}

Webs == {<<PageFull>>, <<PageEmpty>>, <<PageFull, PageEmpty>>,
         <<PageFallback, PageDecorativeOnly, PageFull>>,
         <<PageNotFound>>, <<PageOdd, PagePrimaryTwice, PageNotFound>>,
         <<PageFallback, PageFull>>}

LongWebs == {<<PageFull>>, <<PageFallback, PageEmpty>>}

(***************************************************************************)
(* State machine                                                           *)
(***************************************************************************)
Init ==
    /\ store = <<>>
    /\ pc = "idle"
    /\ doc = [ok |-> TRUE, rows |-> <<>>]
    /\ web = <<PageEmpty>>
    /\ row = 1
    /\ features = <<>>
    /\ imagesFetched = 0
    /\ error = "none"
    /\ runs = 0
    /\ request = ""
    /\ response = NoResponse
    /\ fetched = <<>>
    /\ nonOk = 0
    /\ netErrors = 0
    /\ putsThisRun = 0
    /\ storeBefore = <<>>
    /\ everPut = FALSE

readerVars == <<request, response>>

\* The cron trigger invokes scheduled(); the spreadsheet fetch is issued.
StartRun(d, w) ==
    /\ pc \in {"idle", "done", "threw"}
    /\ runs < MaxRuns
    /\ pc' = "awaitTable"
    /\ doc' = d
    /\ web' = w
    /\ row' = 1
    /\ features' = <<>>
    /\ imagesFetched' = 0
    /\ error' = "none"
    /\ runs' = runs + 1
    /\ fetched' = <<>>
    /\ nonOk' = 0
    /\ netErrors' = 0
    /\ putsThisRun' = 0
    /\ storeBefore' = store
    /\ UNCHANGED <<store, everPut, readerVars>>

\* await fetch(spreadsheet); await response.text(); cheerio.load(body)
TableFetchResolves ==
    /\ pc = "awaitTable"
    /\ pc' = "loop"
    /\ nonOk' = nonOk + (IF doc.ok THEN 0 ELSE 1)
    /\ UNCHANGED <<store, doc, web, row, features, imagesFetched, error, runs,
                   fetched, netErrors, putsThisRun, storeBefore, everPut, readerVars>>

\* the fetch promise rejects: the exception leaves scheduled()
TableFetchRejects ==
    /\ pc = "awaitTable"
    /\ pc' = "threw"
    /\ error' = "network"
    /\ netErrors' = netErrors + 1
    /\ UNCHANGED <<store, doc, web, row, features, imagesFetched, runs,
                   fetched, nonOk, putsThisRun, storeBefore, everPut, readerVars>>

\* One iteration of the for-loop up to its await (or to its end when the row
\* is skipped or lies beyond the cap).
ProcessRow ==
    /\ pc = "loop"
    /\ row <= Len(doc.rows)
    /\ LET r == doc.rows[row] IN
       IF SkipRow(r)
       THEN /\ row' = row + 1
            /\ UNCHANGED <<pc, features, imagesFetched, fetched>>
       ELSE /\ imagesFetched' = imagesFetched + 1
            /\ IF WithinCap(imagesFetched)
               THEN /\ pc' = "awaitDetail"
                    /\ fetched' = Append(fetched, row)
                    /\ UNCHANGED <<row, features>>
               ELSE /\ features' = Append(features, NewFeature(r))
                    /\ row' = row + 1
                    /\ UNCHANGED <<pc, fetched>>
    /\ UNCHANGED <<store, doc, web, error, runs, nonOk, netErrors, putsThisRun,
                   storeBefore, everPut, readerVars>>

DetailFetchResolvesAndPuts ==
    /\ pc = "awaitDetail"
    /\ LET r == doc.rows[row]
           page == DetailPage(web, parseInt(r.idCell).val)
       IN /\ features' = Append(features, Enrich(NewFeature(r), page))
          /\ nonOk' = nonOk + (IF page.ok THEN 0 ELSE 1)
          /\ store' = <<Collection(features', runs)>>
    /\ putsThisRun' = putsThisRun + 1
    /\ everPut' = TRUE
    /\ row' = row + 1
    /\ pc' = "loop"
    /\ UNCHANGED <<doc, web, imagesFetched, error, runs, fetched, netErrors,
                   storeBefore, readerVars>>

\* await fetch(feature.properties.url) and response.text() resolve; the page
\* is parsed, the feature enriched and pushed.
DetailFetchResolves ==
    /\ pc = "awaitDetail"
    /\ LET r == doc.rows[row]
           page == DetailPage(web, parseInt(r.idCell).val)
       IN /\ features' = Append(features, Enrich(NewFeature(r), page))
          /\ nonOk' = nonOk + (IF page.ok THEN 0 ELSE 1)
    /\ row' = row + 1
    /\ pc' = "loop"
    /\ UNCHANGED <<store, doc, web, imagesFetched, error, runs, fetched, netErrors,
                   putsThisRun, storeBefore, everPut, readerVars>>

DetailFetchRejectsSwallowed ==
    /\ pc = "awaitDetail"
    /\ netErrors' = netErrors + 1
    /\ features' = Append(features, NewFeature(doc.rows[row]))
    /\ row' = row + 1
    /\ pc' = "loop"
    /\ UNCHANGED <<store, doc, web, imagesFetched, error, runs, fetched, nonOk,
                   putsThisRun, storeBefore, everPut, readerVars>>

\* the detail fetch promise rejects: the exception leaves scheduled()
DetailFetchRejects ==
    /\ pc = "awaitDetail"
    /\ pc' = "threw"
    /\ error' = "network"
    /\ netErrors' = netErrors + 1
    /\ UNCHANGED <<store, doc, web, row, features, imagesFetched, runs,
                   fetched, nonOk, putsThisRun, storeBefore, everPut, readerVars>>

ValidatePutsFirst ==
    /\ pc = "loop"
    /\ row > Len(doc.rows)
    /\ store' = <<Collection(features, runs)>>
    /\ IF ValidationError(features) # "none"
       THEN /\ pc' = "threw"
            /\ error' = ValidationError(features)
       ELSE /\ pc' = "done"
            /\ UNCHANGED error
    /\ putsThisRun' = putsThisRun + 1
    /\ everPut' = TRUE
    /\ UNCHANGED <<doc, web, row, features, imagesFetched, runs, fetched, nonOk,
                   netErrors, storeBefore, readerVars>>

\* The loop is over: the sanity check either throws or lets put be issued.
Validate ==
    /\ pc = "loop"
    /\ row > Len(doc.rows)
    /\ IF ValidationError(features) # "none"
       THEN /\ pc' = "threw"
            /\ error' = ValidationError(features)
       ELSE /\ pc' = "awaitPut"
            /\ UNCHANGED error
    /\ UNCHANGED <<store, doc, web, row, features, imagesFetched, runs, fetched,
                   nonOk, netErrors, putsThisRun, storeBefore, everPut, readerVars>>

\* await env.miles.put("miles", JSON.stringify(miles, null, 2)); return
PutResolves ==
    /\ pc = "awaitPut"
    /\ store' = <<Collection(features, runs)>>
    /\ putsThisRun' = putsThisRun + 1
    /\ everPut' = TRUE
    /\ pc' = "done"
    /\ UNCHANGED <<doc, web, row, features, imagesFetched, error, runs, fetched,
                   nonOk, netErrors, storeBefore, readerVars>>

runVars == <<store, pc, doc, web, row, features, imagesFetched, error, runs,
             fetched, nonOk, netErrors, putsThisRun, storeBefore, everPut>>

\* a request reaches the read handler
Request(method) ==
    /\ request = ""
    /\ request' = method
    /\ response' = NoResponse
    /\ UNCHANGED runVars

\* the read handler answers it
Respond ==
    /\ request # ""
    /\ response' = fetch(request, store)
    /\ request' = ""
    /\ UNCHANGED runVars

Next ==
    \/ \E d \in Documents, w \in Webs : StartRun(d, w)
    \/ TableFetchResolves
    \/ TableFetchRejects
    \/ ProcessRow
    \/ DetailFetchResolves
    \/ DetailFetchRejects
    \/ Validate
    \/ PutResolves
    \/ \E m \in Methods : Request(m)
    \/ Respond

Spec == Init /\ [][Next]_vars

\* scheduled() over tables longer than the cap
NextCap ==
    \/ \E d \in LongDocuments, w \in LongWebs : StartRun(d, w)
    \/ TableFetchResolves
    \/ TableFetchRejects
    \/ ProcessRow
    \/ DetailFetchResolves
    \/ DetailFetchRejects
    \/ Validate
    \/ PutResolves

SpecCap == Init /\ [][NextCap]_vars

(***************************************************************************)
(* Properties                                                              *)
(***************************************************************************)
\* the three quality gates as the specification words them
HasImage(f) == f.imageUrl # <<>>
HasReportCount(f) == f.numReports # <<>>
PassesGates(feats) ==
    /\ \E k \in 1..Len(feats) : HasImage(feats[k])
    /\ \E k \in 1..Len(feats) : HasReportCount(feats[k])
    /\ Len(feats) >= MinMiles

\* a row that is a mile: its identifier cell parses as an integer and its
\* name does not contain the sentinel phrase
IsMileRow(r) ==
    /\ ~parseInt(r.idCell).nan
    /\ ~ \E i \in 1..Len(r.name) :
            /\ i + Len(Sentinel) - 1 <= Len(r.name)
            /\ \A j \in 1..Len(Sentinel) : r.name[i + j - 1] = Sentinel[j]

\* indices of the mile rows among the first n rows, in row order
MileRows(rows, n) ==
    LET Test(i) == IsMileRow(rows[i])
    IN SelectSeq([i \in 1..n |-> i], Test)

RunEnded == pc \in {"done", "threw"}
FailedValidation == pc = "threw" /\ error \in ValidationErrors

\* C1 (as claimed): every value a run writes to the store passes the three
\* gates: some feature has an image URL, some feature has a report count and
\* there are at least 10 features.
C1_PersistedPassesGates ==
    store # <<>> => PassesGates(store[1].features)

\* C2 (as claimed): a run whose fetches all succeed and whose collection has
\* at least 10 features, one with an image and one with a report count, ends
\* without a failure and with exactly one put of that collection.
C2_GoodCollectionIsPersisted ==
    (RunEnded /\ netErrors = 0 /\ nonOk = 0 /\ row > Len(doc.rows)
        /\ PassesGates(features))
    => (pc = "done" /\ error = "none" /\ putsThisRun = 1
        /\ store = <<Collection(features, runs)>>)

\* C3: when the validator raises a failure, put was not invoked in the run,
\* the store holds what it held when the run started, and a GET then returns
\* that earlier collection, or 404 when there was none.
C3_ValidationFailureKeepsStore ==
    FailedValidation =>
        /\ putsThisRun = 0
        /\ store = storeBefore
        /\ fetch("GET", store).status = (IF storeBefore = <<>> THEN 404 ELSE 200)
        /\ fetch("GET", store).json = storeBefore

C3_Witness ==
    /\ FailedValidation
    /\ storeBefore # <<>>
    /\ request = ""
    /\ response.status = 200
    /\ response.json = storeBefore

\* C4 (as claimed): once any fetch of the run has failed, by a rejected
\* promise or by a non-success status, the run has aborted and put nothing.
C4_AnyFailedFetchAborts ==
    (netErrors > 0 \/ nonOk > 0) => (pc = "threw" /\ error = "network" /\ putsThisRun = 0)

RunFrozen ==
    /\ pc' = "threw"
    /\ error' = "network"
    /\ features' = features
    /\ fetched' = fetched
    /\ store' = store
    /\ putsThisRun' = 0

\* C4 (amended): when a fetch promise rejects, the run aborts at that fetch:
\* no record is built from it, no further detail fetch is issued and put is
\* not invoked, until the next run starts.
C4_RejectedFetchAborts ==
    [][ /\ (netErrors' > netErrors => RunFrozen)
        /\ (netErrors > 0 /\ runs' = runs => RunFrozen) ]_vars

C4_Witness ==
    /\ netErrors > 0
    /\ pc = "threw"
    /\ features # <<>>
    /\ Len(fetched) = Len(features) + 1
    /\ row <= Len(doc.rows)

\* C5: a run never issues more than 500 detail page fetches.
C5_FetchCap == Len(fetched) <= MaxDetailFetches

C5_Witness ==
    /\ Len(fetched) = MaxDetailFetches
    /\ Len(features) > MaxDetailFetches
    /\ Len(doc.rows) > Len(features)

\* C6: the features are the mile rows processed so far, one per row in row
\* order; skipped rows emit nothing and fetch nothing; the rows fetched are
\* exactly the first min(n, 500) mile rows; features after the first 500 are
\* present with neither image URL nor report count.
C6_FeaturesFollowRows ==
    (pc \in {"loop", "awaitDetail", "awaitPut", "done"} \/ FailedValidation) =>
        LET E == MileRows(doc.rows, row - 1)
            issued == IF pc = "awaitDetail" THEN E \o <<row>> ELSE E
        IN /\ Len(features) = Len(E)
           /\ \A k \in 1..Len(E) :
                /\ features[k].id = parseInt(doc.rows[E[k]].idCell).val
                /\ features[k].mileNumber = features[k].id
                /\ features[k].name = doc.rows[E[k]].name
                /\ k > MaxDetailFetches =>
                      (features[k].imageUrl = <<>> /\ features[k].numReports = <<>>)
           /\ pc = "awaitDetail" => IsMileRow(doc.rows[row])
           /\ fetched = SubSeq(issued, 1, Min(Len(issued), MaxDetailFetches))

C6_Witness ==
    /\ pc = "done"
    /\ Len(features) > MaxDetailFetches
    /\ Len(fetched) = MaxDetailFetches
    /\ \E i \in 1..MaxDetailFetches : ~IsMileRow(doc.rows[i])
    /\ Len(store[1].features) = Len(MileRows(doc.rows, Len(doc.rows)))

\* C7: the read handler answers 403 to every method but GET, 404 to a GET
\* when the store is empty, and the stored value unchanged otherwise; it
\* never writes the store; a GET gets 404 only if no run ever completed a put.
C7_ReadHandler ==
    [][ (request # "" /\ request' = "") =>
          /\ store' = store
          /\ response'.method = request
          /\ request # "GET" => (response'.status = 403 /\ response'.json = <<>>)
          /\ (request = "GET" /\ store = <<>>) =>
                (response'.status = 404 /\ response'.json = <<>>)
          /\ (request = "GET" /\ store # <<>>) =>
                (response'.status = 200 /\ response'.json = store)
          /\ response'.status = 404 => ~everPut ]_vars

C7_Witness ==
    /\ response.method = "POST"
    /\ response.status = 403
    /\ store # <<>>
    /\ everPut

DistinctPositiveIds(feats) ==
    /\ \A j, k \in 1..Len(feats) : j # k => feats[j].id # feats[k].id
    /\ \A k \in 1..Len(feats) : feats[k].id > 0

\* C8 (as claimed): in every persisted collection the feature ids are
\* pairwise distinct positive integers, whatever the table holds.
C8_PersistedIdsDistinct ==
    store # <<>> => DistinctPositiveIds(store[1].features)

\* C8 (amended): in every persisted collection each feature's id is the
\* integer parsed from the identifier cell of its row, so the ids are pairwise
\* distinct and positive exactly when the parsed identifiers of the table's
\* mile rows are; the run neither deduplicates nor rejects them.
C8_IdsAreParsedCells ==
    [][ store' # store =>
          LET fs == store'[1].features
              E == MileRows(doc.rows, Len(doc.rows))
              parsed == [k \in 1..Len(E) |-> [id |-> parseInt(doc.rows[E[k]].idCell).val]]
          IN /\ Len(fs) = Len(E)
             /\ \A k \in 1..Len(E) : fs[k].id = parsed[k].id /\ fs[k].mileNumber = parsed[k].id
             /\ DistinctPositiveIds(fs) <=> DistinctPositiveIds(parsed) ]_vars

C8_Witness ==
    /\ pc = "done"
    /\ putsThisRun = 1
    /\ Len(store[1].features) >= MinMiles
    /\ DistinctPositiveIds(store[1].features)

\* C9: a run completes at most one put, and only when the loop is over, every
\* detail fetch has resolved and validation has passed; a GET answered during
\* or after a run returns what the store held before the run or the run's
\* complete collection, never part of it.
C9_SinglePutAfterValidation ==
    [][ /\ putsThisRun' <= 1
        /\ (store' # store \/ putsThisRun' > putsThisRun) =>
              /\ pc = "awaitPut"
              /\ error = "none"
              /\ row > Len(doc.rows)
              /\ Len(features) = Len(MileRows(doc.rows, Len(doc.rows)))
              /\ Len(fetched) = Min(Len(features), MaxDetailFetches)
              /\ ValidationError(features) = "none"
              /\ store' = <<Collection(features, runs)>>
        /\ (request # "" /\ request' = "" /\ response'.status = 200 /\ runs > 0) =>
              \/ response'.json = storeBefore
              \/ /\ pc = "done"
                 /\ response'.json = <<Collection(features, runs)>>
                 /\ Len(features) = Len(MileRows(doc.rows, Len(doc.rows))) ]_vars

C9_Witness ==
    /\ pc = "awaitDetail"
    /\ features # <<>>
    /\ storeBefore # <<>>
    /\ request = ""
    /\ response.status = 200
    /\ response.json = storeBefore
    /\ response.json[1].updatedAt < runs

MarkedDecorative(img) ==
    img.alt # <<>> /\ \E i \in 1..Len(img.alt[1]) : img.alt[1][i] = "decorative"
HasSource(img) == img.src # <<>> /\ img.src # <<"">>
PrimaryHasSource(page) == page.mileImages # <<>> /\ HasSource(page.mileImages[1])
\* position of the first report image not marked decorative, 0 if none
FirstPlain(page) ==
    IF \E i \in 1..Len(page.reportImages) : ~MarkedDecorative(page.reportImages[i])
    THEN CHOOSE i \in 1..Len(page.reportImages) :
            /\ ~MarkedDecorative(page.reportImages[i])
            /\ \A j \in 1..(i - 1) : MarkedDecorative(page.reportImages[j])
    ELSE 0
FallbackHasSource(page) == FirstPlain(page) > 0 /\ HasSource(page.reportImages[FirstPlain(page)])

\* C10: the image URL of an enriched feature is the source of the primary
\* mile image when it has one, even if report images exist; else the source
\* of the first report image not marked decorative; else it is absent.
C10_ImageFallback ==
    \A k \in 1..Min(Len(features), MaxDetailFetches) :
        LET page == DetailPage(web, features[k].id)
            url == features[k].imageUrl
        IN /\ PrimaryHasSource(page) => url = page.mileImages[1].src
           /\ (~PrimaryHasSource(page) /\ FallbackHasSource(page)) =>
                 url = page.reportImages[FirstPlain(page)].src
           /\ (~PrimaryHasSource(page) /\ ~FallbackHasSource(page)) => url = <<>>

C10_Witness ==
    /\ \E k \in 1..Len(features) :
          /\ DetailPage(web, features[k].id) = PageFallback
          /\ features[k].imageUrl = <<"report2.jpg">>
    /\ \E k \in 1..Len(features) :
          /\ DetailPage(web, features[k].id) = PageFull
          /\ features[k].imageUrl = <<"mile.jpg">>
    /\ \E k \in 1..Len(features) :
          /\ DetailPage(web, features[k].id) = PageDecorativeOnly
          /\ features[k].imageUrl = <<>>

====
